---- MODULE Spec2Model ----
(***************************************************************************)
(* cbitsets: a fixed-capacity bitset stored as an array of WORDs           *)
(* (src/cbitsets/include/cbitsets.h, src/cbitsets/src/cbitsets.c).         *)
(*                                                                         *)
(* A WORD (unsigned long, 64 bits on LP64) is modelled bit by bit, as the   *)
(* set of the positions 0..63 of its 1 bits; the C operators <<, | and &   *)
(* are defined on that representation. The heap holds the bitsets that     *)
(* bitset_create has returned; each call of the API is one step.           *)
(* Out-of-bounds accesses are undefined behaviour in C: the model lets     *)
(* them fault, read an arbitrary word, or write into other memory.         *)
(***************************************************************************)
EXTENDS Integers, Sequences, FiniteSets, TLC

VARIABLES heap, last, fault

vars == <<heap, last, fault>>

\* sizeof(WORD) * 8 with WORD = unsigned long (LP64)
BitsPerWord == 64

\* longest index array handed to bitset_fill
MaxFill == 2

\* the bitset objects a run may allocate
Objs == {"a", "b"}

\* values of num_bits handed to bitset_create: no word, one bit, a full
\* word, a word and a bit, two full words
NumBits == {0, 1, 64, 65, 128}

\* values of index handed to bitset_set and bitset_fill (the int entries of
\* indices convert to unsigned unchanged, being non-negative): the first and
\* the last bit of word 0 and the first bit of word 1; each is outside the
\* array of a bitset with fewer words
Indices == {0, 63, 64}

BitPos == 0 .. (BitsPerWord - 1)

-----------------------------------------------------------------------------
(* WORD arithmetic: a WORD is the set of the positions of its 1 bits *)

\* the WORD with numeric value 0 (calloc's fill)
ZeroWord == {}

\* the WORD 1UL
OneWord == {0}

\* the WORD ~0UL
AllOnes == BitPos

\* w << n for 0 <= n < BitsPerWord: bits shifted past the top are lost
Shl(w, n) == {k + n : k \in w} \cap BitPos

\* x | y
BitOr(x, y) == x \cup y

\* x & y
BitAnd(x, y) == x \cap y

\* the truth value of a WORD in an if condition
NonZero(w) == w # {}

\* ceil((double)n / d) converted to size_t; the quotient of two unsigned
\* values below 2^32 by a power of two is exact in a double
ceil_div(n, d) == IF n % d = 0 THEN n \div d ELSE (n \div d) + 1

-----------------------------------------------------------------------------
(* The functions of cbitsets.c *)

\* bitset_create had it truncated the quotient instead of taking its ceiling
bitset_create_floor(num_bits) ==
    LET size == num_bits \div BitsPerWord
    IN  [size |-> size, words |-> [i \in 0 .. (size - 1) |-> ZeroWord]]

\* bitset_create had it sized the array as num_bits / bits_per_word + 1
bitset_create_extra_word(num_bits) ==
    LET size == (num_bits \div BitsPerWord) + 1
    IN  [size |-> size, words |-> [i \in 0 .. (size - 1) |-> ZeroWord]]

\* malloc and calloc are taken to succeed; calloc(0, ...) may return NULL or
\* a pointer, and no word of a zero-size array is ever in range
bitset_create(num_bits) ==
    LET bits_per_word == BitsPerWord
        size == ceil_div(num_bits, bits_per_word)
    IN  [size |-> size, words |-> [i \in 0 .. (size - 1) |-> ZeroWord]]

word_index(index) == index \div BitsPerWord

bit_index(index) == index % BitsPerWord

\* x ^ y
BitXor(x, y) == (x \ y) \cup (y \ x)

\* x + (1UL << k) in WORD arithmetic: the carry runs up from bit k and is
\* lost past the top bit
RECURSIVE AddBit(_, _)
AddBit(x, k) ==
    IF k >= BitsPerWord THEN x
    ELSE IF k \in x THEN AddBit(x \ {k}, k + 1)
    ELSE x \cup {k}

\* bitset_set had it written = for |=
bitset_set_assign(set, index) ==
    IF word_index(index) \in DOMAIN set.words
    THEN [set EXCEPT !.words[word_index(index)] =
                        Shl(OneWord, bit_index(index))]
    ELSE set

\* bitset_set had it written ^= for |=
bitset_set_xor(set, index) ==
    IF word_index(index) \in DOMAIN set.words
    THEN [set EXCEPT !.words[word_index(index)] =
                        BitXor(@, Shl(OneWord, bit_index(index)))]
    ELSE set

\* bitset_set had it written += for |=
bitset_set_add(set, index) ==
    IF word_index(index) \in DOMAIN set.words
    THEN [set EXCEPT !.words[word_index(index)] =
                        AddBit(@, bit_index(index))]
    ELSE set

\* the write of bitset_set: the bitset after set->words[word_index] |= mask.
\* A word_index outside the array leaves the array as it is (the write goes
\* elsewhere, see Set).
bitset_set(set, index) ==
    IF word_index(index) \in DOMAIN set.words
    THEN [set EXCEPT !.words[word_index(index)] =
                        BitOr(@, Shl(OneWord, bit_index(index)))]
    ELSE set

\* the loop of bitset_fill from position i of indices on
RECURSIVE fill_loop(_, _, _)
fill_loop(set, indices, i) ==
    IF i > Len(indices)
    THEN set
    ELSE fill_loop(bitset_set(set, indices[i]), indices, i + 1)

\* bitset_fill had its loop stopped one index early
bitset_fill_skip_last(set, indices) ==
    fill_loop(set, SubSeq(indices, 1, Len(indices) - 1), 1)

bitset_fill(set, indices) == fill_loop(set, indices, 1)

\* the loop of is_disjoint from word i on: the value returned and the number
\* of word pairs a->words[i], b->words[i] read
RECURSIVE is_disjoint_loop(_, _, _)
is_disjoint_loop(a, b, i) ==
    IF ~(i < a.size)
    THEN [ret |-> TRUE, reads |-> i]
    ELSE IF NonZero(BitAnd(a.words[i], b.words[i]))
         THEN [ret |-> FALSE, reads |-> i + 1]
         ELSE is_disjoint_loop(a, b, i + 1)

\* is_disjoint had it tested a->words[i] && b->words[i]
RECURSIVE is_disjoint_logical_and_loop(_, _, _)
is_disjoint_logical_and_loop(a, b, i) ==
    IF ~(i < a.size)
    THEN [ret |-> TRUE, reads |-> i]
    ELSE IF NonZero(a.words[i]) /\ NonZero(b.words[i])
         THEN [ret |-> FALSE, reads |-> i + 1]
         ELSE is_disjoint_logical_and_loop(a, b, i + 1)

is_disjoint_logical_and(a, b) == is_disjoint_logical_and_loop(a, b, 0)

\* is_disjoint had it tested a->words[i] & b->words[0]
RECURSIVE is_disjoint_b_first_word_loop(_, _, _)
is_disjoint_b_first_word_loop(a, b, i) ==
    IF ~(i < a.size)
    THEN [ret |-> TRUE, reads |-> i]
    ELSE IF NonZero(BitAnd(a.words[i], b.words[0]))
         THEN [ret |-> FALSE, reads |-> i + 1]
         ELSE is_disjoint_b_first_word_loop(a, b, i + 1)

is_disjoint_b_first_word(a, b) == is_disjoint_b_first_word_loop(a, b, 0)

\* is_disjoint had its loop run while i <= a->size; the read past the arrays
\* is taken to find zero
RECURSIVE is_disjoint_le_loop(_, _, _)
is_disjoint_le_loop(a, b, i) ==
    IF ~(i <= a.size)
    THEN [ret |-> TRUE, reads |-> i]
    ELSE IF /\ i \in DOMAIN a.words
            /\ i \in DOMAIN b.words
            /\ NonZero(BitAnd(a.words[i], b.words[i]))
         THEN [ret |-> FALSE, reads |-> i + 1]
         ELSE is_disjoint_le_loop(a, b, i + 1)

is_disjoint_le(a, b) == is_disjoint_le_loop(a, b, 0)

is_disjoint(a, b) == is_disjoint_loop(a, b, 0)

\* the loop of not_disjoint from word i on
RECURSIVE not_disjoint_loop(_, _, _)
not_disjoint_loop(a, b, i) ==
    IF ~(i < a.size)
    THEN [ret |-> FALSE, reads |-> i]
    ELSE IF NonZero(BitAnd(a.words[i], b.words[i]))
         THEN [ret |-> TRUE, reads |-> i + 1]
         ELSE not_disjoint_loop(a, b, i + 1)

\* not_disjoint had it kept is_disjoint's final return true
not_disjoint_true_at_end(a, b) ==
    [not_disjoint_loop(a, b, 0) EXCEPT !.ret = TRUE]

not_disjoint(a, b) == not_disjoint_loop(a, b, 0)

-----------------------------------------------------------------------------
(* State *)

NoCall == [op |-> "none", a |-> "a", b |-> "a", args |-> << >>,
           ret |-> FALSE, acc |-> {}]

Init ==
    /\ heap = << >>
    /\ last = NoCall
    /\ fault = FALSE

\* bitset* x = bitset_create(num_bits)
Create(x, num_bits) ==
    /\ ~fault
    /\ x \notin DOMAIN heap
    /\ heap' = (x :> bitset_create(num_bits)) @@ heap
    /\ last' = [op |-> "create", a |-> x, b |-> x, args |-> <<num_bits>>,
                ret |-> FALSE, acc |-> {}]
    /\ UNCHANGED fault

Call(op, x, y, args, ret, acc) ==
    [op |-> op, a |-> x, b |-> y, args |-> args, ret |-> ret, acc |-> acc]

\* index arrays handed to bitset_fill
IndexSeqs == UNION {[1 .. n -> Indices] : n \in 0 .. MaxFill}

\* what a read of b->words[i] past the end of b's array may find: each test
\* a->words[i] & junk comes out either way with one of these two
JunkWords == {ZeroWord, AllOnes}

\* b as is_disjoint(a, b) sees it when a has n words: past b's own words,
\* whatever memory follows
OverRead(b, n, junk) ==
    [size |-> b.size,
     words |-> [i \in 0 .. (n - 1) |->
                  IF i < b.size THEN b.words[i] ELSE junk[i]]]

InRange(set, index) == word_index(index) < set.size

\* the word indices bitset_fill passes to set->words[...] for indices[1..n]
FillAccess(indices, n) == {word_index(indices[i]) : i \in 1 .. n}

\* Where a write past the end of x's array lands depends on what the
\* allocator put behind it: memory the model does not hold (NoAlias), or the
\* array of another bitset y starting d words after x's.
NoAlias == [obj |-> "none", d |-> 0]

MaxWordIndex == CHOOSE m \in {word_index(i) : i \in Indices} :
                    \A i \in Indices : word_index(i) <= m

\* the layouts that tell the writes of indices apart: those that put a word
\* of another bitset where some index outside x's array points
Aliases(h, x, indices) ==
    {NoAlias} \cup
    {al \in [obj : DOMAIN h \ {x}, d : h[x].size .. MaxWordIndex] :
        \E i \in 1 .. Len(indices) :
            /\ ~InRange(h[x], indices[i])
            /\ (word_index(indices[i]) - al.d) \in DOMAIN h[al.obj].words}

\* set->words[word_index] |= mask on heap h under that layout
store(h, x, index, alias) ==
    IF InRange(h[x], index)
    THEN [h EXCEPT ![x] = bitset_set(@, index)]
    ELSE IF /\ alias.obj \in DOMAIN h
            /\ (word_index(index) - alias.d) \in DOMAIN h[alias.obj].words
         THEN [h EXCEPT ![alias.obj].words[word_index(index) - alias.d] =
                           BitOr(@, Shl(OneWord, bit_index(index)))]
         ELSE h

\* the loop of bitset_fill on heap h from position i on, stray writes
\* included
RECURSIVE fill_stray(_, _, _, _, _)
fill_stray(h, x, indices, i, alias) ==
    IF i > Len(indices)
    THEN h
    ELSE fill_stray(store(h, x, indices[i], alias), x, indices, i + 1, alias)

\* bitset_set(x, index) with word_index inside the array
SetInRange(x, index) ==
    /\ ~fault
    /\ x \in DOMAIN heap
    /\ InRange(heap[x], index)
    /\ heap' = [heap EXCEPT ![x] = bitset_set(@, index)]
    /\ last' = Call("set", x, x, <<index>>, FALSE, {word_index(index)})
    /\ UNCHANGED fault

\* bitset_set(x, index) with word_index outside the array: the write lands
\* somewhere else and the call returns
SetStray(x, index) ==
    /\ ~fault
    /\ x \in DOMAIN heap
    /\ ~InRange(heap[x], index)
    /\ \E alias \in Aliases(heap, x, <<index>>) :
          heap' = store(heap, x, index, alias)
    /\ last' = Call("set", x, x, <<index>>, FALSE, {word_index(index)})
    /\ UNCHANGED fault

\* bitset_set(x, index) with word_index outside the array: the write faults
SetFault(x, index) ==
    /\ ~fault
    /\ x \in DOMAIN heap
    /\ ~InRange(heap[x], index)
    /\ fault' = TRUE
    /\ last' = Call("set", x, x, <<index>>, FALSE, {word_index(index)})
    /\ UNCHANGED heap

\* bitset_fill(x, indices, Len(indices)), every index inside the array
FillInRange(x, indices) ==
    /\ ~fault
    /\ x \in DOMAIN heap
    /\ \A i \in 1 .. Len(indices) : InRange(heap[x], indices[i])
    /\ heap' = [heap EXCEPT ![x] = bitset_fill(@, indices)]
    /\ last' = Call("fill", x, x, indices, FALSE,
                    FillAccess(indices, Len(indices)))
    /\ UNCHANGED fault

\* bitset_fill with some index outside the array, every write returning
FillStray(x, indices) ==
    /\ ~fault
    /\ x \in DOMAIN heap
    /\ \E i \in 1 .. Len(indices) : ~InRange(heap[x], indices[i])
    /\ \E alias \in Aliases(heap, x, indices) :
          heap' = fill_stray(heap, x, indices, 1, alias)
    /\ last' = Call("fill", x, x, indices, FALSE,
                    FillAccess(indices, Len(indices)))
    /\ UNCHANGED fault

\* bitset_fill with some index outside the array, the write of indices[k]
\* faulting
FillFault(x, indices) ==
    /\ ~fault
    /\ x \in DOMAIN heap
    /\ \E k \in 1 .. Len(indices) :
          /\ ~InRange(heap[x], indices[k])
          /\ \E alias \in Aliases(heap, x, SubSeq(indices, 1, k - 1)) :
                heap' = fill_stray(heap, x, SubSeq(indices, 1, k - 1), 1, alias)
          /\ last' = Call("fill", x, x, indices, FALSE, FillAccess(indices, k))
    /\ fault' = TRUE

\* is_disjoint(x, y) where y has at least as many words as x
IsDisjoint(x, y) ==
    /\ ~fault
    /\ x \in DOMAIN heap /\ y \in DOMAIN heap
    /\ heap[x].size <= heap[y].size
    /\ LET r == is_disjoint(heap[x], heap[y])
       IN  last' = Call("is_disjoint", x, y, << >>, r.ret,
                        0 .. (r.reads - 1))
    /\ UNCHANGED <<heap, fault>>

\* is_disjoint(x, y) where y has fewer words than x: reads of y past its
\* array find junk, or fault
IsDisjointOver(x, y) ==
    /\ ~fault
    /\ x \in DOMAIN heap /\ y \in DOMAIN heap
    /\ heap[x].size > heap[y].size
    /\ \E junk \in [heap[y].size .. (heap[x].size - 1) -> JunkWords] :
          LET r == is_disjoint(heap[x],
                               OverRead(heap[y], heap[x].size, junk))
          IN  \/ /\ last' = Call("is_disjoint", x, y, << >>, r.ret,
                                 0 .. (r.reads - 1))
                 /\ UNCHANGED fault
              \/ \E k \in heap[y].size .. (r.reads - 1) :
                    /\ last' = Call("is_disjoint", x, y, << >>, FALSE, 0 .. k)
                    /\ fault' = TRUE
    /\ UNCHANGED heap

\* not_disjoint(x, y) where y has at least as many words as x
NotDisjoint(x, y) ==
    /\ ~fault
    /\ x \in DOMAIN heap /\ y \in DOMAIN heap
    /\ heap[x].size <= heap[y].size
    /\ LET r == not_disjoint(heap[x], heap[y])
       IN  last' = Call("not_disjoint", x, y, << >>, r.ret,
                        0 .. (r.reads - 1))
    /\ UNCHANGED <<heap, fault>>

\* not_disjoint(x, y) where y has fewer words than x
NotDisjointOver(x, y) ==
    /\ ~fault
    /\ x \in DOMAIN heap /\ y \in DOMAIN heap
    /\ heap[x].size > heap[y].size
    /\ \E junk \in [heap[y].size .. (heap[x].size - 1) -> JunkWords] :
          LET r == not_disjoint(heap[x],
                                OverRead(heap[y], heap[x].size, junk))
          IN  \/ /\ last' = Call("not_disjoint", x, y, << >>, r.ret,
                                 0 .. (r.reads - 1))
                 /\ UNCHANGED fault
              \/ \E k \in heap[y].size .. (r.reads - 1) :
                    /\ last' = Call("not_disjoint", x, y, << >>, FALSE, 0 .. k)
                    /\ fault' = TRUE
    /\ UNCHANGED heap

Next ==
    \/ \E x \in Objs, n \in NumBits : Create(x, n)
    \/ \E x \in Objs, i \in Indices : SetInRange(x, i)
    \/ \E x \in Objs, i \in Indices : SetStray(x, i)
    \/ \E x \in Objs, i \in Indices : SetFault(x, i)
    \/ \E x \in Objs, s \in IndexSeqs : FillInRange(x, s)
    \/ \E x \in Objs, s \in IndexSeqs : FillStray(x, s)
    \/ \E x \in Objs, s \in IndexSeqs : FillFault(x, s)
    \/ \E x \in Objs, y \in Objs : IsDisjoint(x, y)
    \/ \E x \in Objs, y \in Objs : IsDisjointOver(x, y)
    \/ \E x \in Objs, y \in Objs : NotDisjoint(x, y)
    \/ \E x \in Objs, y \in Objs : NotDisjointOver(x, y)

Spec == Init /\ [][Next]_vars

-----------------------------------------------------------------------------
(* Vocabulary of the properties *)

\* the bit positions a bitset holds, padding included
Positions(set) == 0 .. (set.size * BitsPerWord - 1)

\* bit p of a bitset is 1
Bit(set, p) == (p % BitsPerWord) \in set.words[p \div BitsPerWord]

Range(s) == {s[i] : i \in 1 .. Len(s)}

\* the orders in which the entries of s can be listed
Orders(s) == {[i \in 1 .. Len(s) |-> s[f[i]]] : f \in Permutations(1 .. Len(s))}

\* set(b, s[1]); ...; set(b, s[n]) as separate calls
RECURSIVE set_each(_, _)
set_each(set, s) ==
    IF s = << >> THEN set ELSE set_each(bitset_set(set, Head(s)), Tail(s))

\* b cut down to its first n words
Truncate(b, n) == [size |-> n, words |-> [i \in 0 .. (n - 1) |-> b.words[i]]]

Compared == last.op \in {"is_disjoint", "not_disjoint"}

EqualSizes == heap[last.a].size = heap[last.b].size

\* the call that led here kept to the precondition of set and fill
IndicesValid(l, h) ==
    \A i \in Range(l.args) : i < h[l.a].size * BitsPerWord

\* the call that led from heap h to l touched no word outside an array
NoStrayAccess(l, h) ==
    \A w \in l.acc : w < h[l.a].size /\ w < h[l.b].size

NoCommonBit(a, b) == ~ \E p \in Positions(a) : Bit(a, p) /\ Bit(b, p)

-----------------------------------------------------------------------------
(* C1: for bitsets of equal word count is_disjoint returns true iff no bit
   position of the capacity, padding included, is set in both; equally, iff
   a.words[i] & b.words[i] is 0 for every word index i. *)
C1_IsDisjointIffNoCommonBit ==
    (last.op = "is_disjoint" /\ EqualSizes) =>
        LET a == heap[last.a]
            b == heap[last.b]
        IN  /\ ~fault
            /\ last.ret <=> NoCommonBit(a, b)
            /\ last.ret <=> \A i \in 0 .. (a.size - 1) :
                               BitAnd(a.words[i], b.words[i]) = ZeroWord

\* is_disjoint has answered false for two bitsets whose first words are both
\* nonzero and share no bit, and whose second words overlap
C1_Witness ==
    /\ last.op = "is_disjoint" /\ last.a # last.b
    /\ heap[last.a].size = 2 /\ heap[last.b].size = 2
    /\ ~last.ret
    /\ heap[last.a].words[0] # {} /\ heap[last.b].words[0] # {}
    /\ heap[last.a].words[0] \cap heap[last.b].words[0] = {}

(* C2: for bitsets of equal capacity, however reached, is_disjoint(a, b) is
   the negation of not_disjoint(a, b). *)
C2_NotDisjointIsNegation ==
    /\ (last.op = "is_disjoint" /\ EqualSizes) =>
          last.ret = ~ not_disjoint(heap[last.a], heap[last.b]).ret
    /\ (last.op = "not_disjoint" /\ EqualSizes) =>
          last.ret = ~ is_disjoint(heap[last.a], heap[last.b]).ret

\* not_disjoint has answered true for two different two-word bitsets that
\* overlap in the second word only
C2_Witness ==
    /\ last.op = "not_disjoint" /\ last.a # last.b
    /\ heap[last.a].size = 2 /\ heap[last.b].size = 2
    /\ last.ret
    /\ heap[last.a].words[0] \cap heap[last.b].words[0] = {}

(* C3: after set(b, index) with index below the capacity, bit index of b is
   1 and every other bit of b, and its word count, is as before; setting the
   last bit of word k does not touch word k + 1. *)
C3_SetFrame ==
    [][(last'.op = "set" /\ IndicesValid(last', heap)) =>
          LET x == last'.a
              index == last'.args[1]
          IN  /\ ~fault'
              /\ heap'[x].size = heap[x].size
              /\ DOMAIN heap'[x].words = DOMAIN heap[x].words
              /\ Bit(heap'[x], index)
              /\ (index % BitsPerWord) \in
                     heap'[x].words[index \div BitsPerWord]
              /\ \A p \in Positions(heap[x]) \ {index} :
                     Bit(heap'[x], p) <=> Bit(heap[x], p)
              /\ \A w \in DOMAIN heap[x].words \ {index \div BitsPerWord} :
                     heap'[x].words[w] = heap[x].words[w]]_vars

\* set(b, 63) has run on a two-word bitset that held bits 0 and 64
C3_Witness ==
    /\ last.op = "set" /\ last.args = <<63>>
    /\ heap[last.a].size = 2
    /\ heap[last.a].words[0] = {0, 63}
    /\ heap[last.a].words[1] = {0}

(* C4: create(num_bits) yields word_count = ceil(num_bits / bits_per_word),
   so the capacity covers num_bits and one word less would not, and every
   word is zero: every bit, padding included, reads as unset. *)
C4_CreateSizeAndZero ==
    (last.op = "create") =>
        LET n == last.args[1]
            b == heap[last.a]
        IN  /\ b.size >= 0
            /\ b.size * BitsPerWord >= n
            /\ (n > 0) => (b.size - 1) * BitsPerWord < n
            /\ (n = 0) => b.size = 0
            /\ DOMAIN b.words = 0 .. (b.size - 1)
            /\ \A i \in DOMAIN b.words : b.words[i] = ZeroWord
            /\ \A p \in Positions(b) : ~Bit(b, p)

\* create(65) has returned a two-word bitset
C4_Witness ==
    /\ last.op = "create" /\ last.args = <<65>>
    /\ heap[last.a].size = 2

(* C5: fill(b, [i1..in]) with in-range indices leaves b as the separate calls
   set(b, i1); ...; set(b, in) do, in whatever order the indices are listed:
   the old contents of b united with {i1..in}. *)
C5_FillIsUnion ==
    [][(last'.op = "fill" /\ IndicesValid(last', heap)) =>
          LET x == last'.a
              s == last'.args
          IN  /\ ~fault'
              /\ heap'[x].size = heap[x].size
              /\ DOMAIN heap'[x].words = DOMAIN heap[x].words
              /\ \A p \in Positions(heap[x]) :
                     Bit(heap'[x], p) <=> (Bit(heap[x], p) \/ p \in Range(s))
              /\ \A q \in Orders(s) : set_each(heap[x], q) = heap'[x]]_vars

\* fill has run with two different indices, the larger one first, on a
\* bitset that holds a further bit
C5_Witness ==
    /\ last.op = "fill" /\ Len(last.args) = 2
    /\ last.args[1] > last.args[2]
    /\ IndicesValid(last, heap)
    /\ \E p \in Positions(heap[last.a]) :
          Bit(heap[last.a], p) /\ p \notin Range(last.args)

(* C6: set is idempotent: a second set(b, i) right after set(b, i), i in
   range, leaves the words of b exactly as the first left them. *)
C6_SetIdempotent ==
    /\ (last.op = "set" /\ IndicesValid(last, heap)) =>
          bitset_set(heap[last.a], last.args[1]) = heap[last.a]
    /\ \A x \in DOMAIN heap : \A i \in Indices :
          InRange(heap[x], i) =>
             bitset_set(bitset_set(heap[x], i), i) = bitset_set(heap[x], i)

\* set(b, 64) has run on a two-word bitset holding other bits too
C6_Witness ==
    /\ last.op = "set" /\ last.args = <<64>>
    /\ heap[last.a].size = 2
    /\ heap[last.a].words[0] # {}
    /\ ~fault

(* C7: is_disjoint(a, b) = is_disjoint(b, a) and not_disjoint(a, b) =
   not_disjoint(b, a) for bitsets of equal word count. *)
C7_Symmetry ==
    /\ (last.op = "is_disjoint" /\ EqualSizes) =>
          last.ret = is_disjoint(heap[last.b], heap[last.a]).ret
    /\ (last.op = "not_disjoint" /\ EqualSizes) =>
          last.ret = not_disjoint(heap[last.b], heap[last.a]).ret

\* is_disjoint has compared two different, nonempty two-word bitsets with
\* different contents
C7_Witness ==
    /\ last.op = "is_disjoint" /\ last.a # last.b
    /\ heap[last.a].size = 2 /\ heap[last.b].size = 2
    /\ heap[last.a] # heap[last.b]
    /\ heap[last.a].words[1] # {} /\ heap[last.b].words[0] # {}

(* C8: create(0) yields word_count 0; two zero-word bitsets are disjoint
   (is_disjoint true, not_disjoint false); an all-zero bitset is disjoint
   from every bitset of equal word count. *)
C8_EmptyAndFresh ==
    /\ (last.op = "create" /\ last.args = <<0>>) => heap[last.a].size = 0
    /\ (Compared /\ heap[last.a].size = 0 /\ heap[last.b].size = 0) =>
          /\ ~fault
          /\ last.ret = (last.op = "is_disjoint")
    /\ (Compared /\ EqualSizes) =>
          ((\/ \A i \in DOMAIN heap[last.a].words :
                  heap[last.a].words[i] = ZeroWord
            \/ \A i \in DOMAIN heap[last.b].words :
                  heap[last.b].words[i] = ZeroWord)
             => last.ret = (last.op = "is_disjoint"))

\* is_disjoint has answered true for two different zero-word bitsets
C8_Witness ==
    /\ last.op = "is_disjoint" /\ last.a # last.b
    /\ heap[last.a].size = 0 /\ heap[last.b].size = 0
    /\ last.ret

(* C9: across calls that keep to their preconditions a set bit stays set and
   word_count never changes; is_disjoint and not_disjoint change nothing; and
   two bitsets for which not_disjoint is true stay so. *)
C9_Monotone ==
    [][NoStrayAccess(last', heap) =>
          /\ ~fault'
          /\ \A x \in DOMAIN heap :
                /\ x \in DOMAIN heap'
                /\ heap'[x].size = heap[x].size
                /\ \A p \in Positions(heap[x]) :
                      Bit(heap[x], p) => Bit(heap'[x], p)
          /\ (last'.op \in {"is_disjoint", "not_disjoint"}) => heap' = heap
          /\ \A x, y \in DOMAIN heap :
                (/\ heap[x].size = heap[y].size
                 /\ not_disjoint(heap[x], heap[y]).ret)
                   => not_disjoint(heap'[x], heap'[y]).ret]_vars

\* a set call has changed a bitset that overlapped another one before, in a
\* bit they do not share
C9_Witness ==
    /\ last.op = "set" /\ DOMAIN heap = Objs
    /\ heap["a"].size = 2 /\ heap["b"].size = 2
    /\ not_disjoint(heap["a"], heap["b"]).ret
    /\ ~Bit(heap["a"], last.args[1]) \/ ~Bit(heap["b"], last.args[1])

(* C10: under the preconditions every word access of set, fill, is_disjoint
   and not_disjoint has its word index inside the array accessed. The
   comparisons read the word pairs 0, 1, ... in order, at most a.word_count
   of them, stopping at the first pair that overlaps: with a.word_count >
   b.word_count they read b at an index >= b.word_count unless a pair below
   b.word_count overlaps, and with a.word_count < b.word_count the trailing
   words of b do not influence the result. *)
C10_Preconditions ==
    /\ (last.op \in {"set", "fill"} /\ IndicesValid(last, heap)) =>
          /\ ~fault
          /\ last.acc = FillAccess(last.args, Len(last.args))
          /\ \A w \in last.acc : w \in DOMAIN heap[last.a].words
    /\ (Compared /\ EqualSizes) =>
          /\ ~fault
          /\ \A w \in last.acc : /\ w \in DOMAIN heap[last.a].words
                                 /\ w \in DOMAIN heap[last.b].words

C10_Trailing ==
    (Compared /\ heap[last.a].size < heap[last.b].size) =>
        LET a == heap[last.a]
            b == Truncate(heap[last.b], heap[last.a].size)
        IN  /\ ~fault
            /\ \A w \in last.acc : w < a.size
            /\ last.op = "is_disjoint" => last.ret = is_disjoint(a, b).ret
            /\ last.op = "not_disjoint" => last.ret = not_disjoint(a, b).ret

NoOverlapBelow(a, b, n) ==
    \A i \in 0 .. (n - 1) : BitAnd(a.words[i], b.words[i]) = ZeroWord

C10_BoundsAmended ==
    /\ C10_Preconditions
    /\ Compared =>
          LET a == heap[last.a]
              b == heap[last.b]
          IN  /\ \E n \in 0 .. a.size : last.acc = 0 .. (n - 1)
              /\ (~fault /\ last.ret = (last.op = "is_disjoint")) =>
                    last.acc = 0 .. (a.size - 1)
              /\ (a.size > b.size /\ NoOverlapBelow(a, b, b.size)) =>
                    b.size \in last.acc
    /\ C10_Trailing

\* is_disjoint has read past the single word of b and returned
C10_Witness ==
    /\ last.op = "is_disjoint" /\ ~fault
    /\ heap[last.a].size = 2 /\ heap[last.b].size = 1
    /\ heap[last.a].words[0] # {} /\ heap[last.b].words[0] # {}
    /\ 1 \in last.acc

\* C10 as first stated: the comparisons iterate exactly a.word_count words,
\* so with a.word_count > b.word_count they access b at an index >=
\* b.word_count
C10_BoundsOriginal ==
    /\ C10_Preconditions
    /\ (Compared /\ ~fault) => last.acc = 0 .. (heap[last.a].size - 1)
    /\ (Compared /\ heap[last.a].size > heap[last.b].size) =>
          \E w \in last.acc : w >= heap[last.b].size
    /\ C10_Trailing

====
